---- MODULE Spec2Model ----
(***************************************************************************)
(* Model of src/peft/utils/save_and_load.py:                               *)
(*   get_peft_model_state_dict     (extract)                               *)
(*   set_peft_model_state_dict     (restore)                               *)
(*   peft_model_load_and_dispatch  (loadAndDispatch)                       *)
(*                                                                         *)
(* Parameter names are real strings; substring tests and the split on      *)
(* "lora_" are computed character by character.  A mapping (a Python dict) *)
(* is a function whose domain is its key set.  A tensor is an opaque       *)
(* object <<owner, key, shape>>: two tensors are the same value iff they   *)
(* are the same triple.                                                    *)
(***************************************************************************)
EXTENDS Integers, Sequences, FiniteSets, TLC

VARIABLES
    model,                  \* the model extract reads (loadAndDispatch: the base model)
    target,                 \* the model restore loads into
    fresh,                  \* target as it was constructed
    heap,                   \* the mapping objects of the last call of extract
    sd0,                    \* fullMapping as it was when extract was called
    ret_ref,                \* the object extract returned (None: nothing returned)
    arg_given,              \* extract was called with a state_dict argument
    pc,                     \* position of the caller / of loadAndDispatch
    peft_model_state_dict,  \* the mapping handed to restore
    returned,               \* name of the instance restore returned
    log,                    \* the calls loadAndDispatch completed, in order
    error,                  \* the exception the caller received (None: none)
    failed_step,            \* the call of loadAndDispatch that raised
    hooks,                  \* the modules carrying a device-alignment hook
    device_map,             \* the device assignment computed
    dispatched              \* dispatch_model has placed the model

vars == <<model, target, fresh, heap, sd0, ret_ref, arg_given, pc,
          peft_model_state_dict, returned, log, error, failed_step, hooks,
          device_map, dispatched>>

\* what loadAndDispatch alone changes
ld_vars == <<log, failed_step, hooks, device_map, dispatched>>

(* ------------------------------ bounds -------------------------------- *)

\* largest number of parameters of a model
MaxKeys == 3

\* largest number of entries of a mapping handed in by the caller
MaxArgKeys == 2

(* ----------------------------- vocabulary ----------------------------- *)

\* Python None where a string is expected
None == "None"

\* an optional mapping, set or tensor: NoValue is Python None, Some(x) is x
NoValue == << >>

Some(x) == <<x>>

IsNone(o) == Len(o) = 0

ValueOf(o) == o[1]

LORA == "LORA"

PROMPT_BASED == "PROMPT_BASED"

\* the three supported values of peft_config.bias and one unsupported value
BiasValues == {"none", "all", "lora_only", "bogus"}

\* the key the strict load of restore reads
PromptKey == "prompt_embeddings"

\* the state-dict path of model.prompt_encoder.embedding's weight slot
EmbeddingWeightKey == "prompt_encoder.embedding.weight"

AllKeys ==
    { "base.lora_A", "base.lora_B", "base.bias", "other.weight",
      "model.classifier.weight", "m.lora_q.lora_A", "m.bias",
      PromptKey, EmbeddingWeightKey }

\* values of model.modules_to_save
ModulesToSaveValues ==
    { NoValue, Some({"classifier"}), Some({"prompt"}), Some({"classifier", "bias"}) }

\* the shape every parameter of the models has, and a shape that differs
ModelShape == "shape of the model's parameter"

OtherShape == "another shape"

Tensor(owner, key, shape) == <<owner, key, shape>>

ShapeOf(t) == t[3]

(* ------------------------------ strings ------------------------------- *)

\* Python `needle in key`
Contains(needle, key) ==
    \E i \in 1..(Len(key) - Len(needle) + 1) :
        SubSeq(key, i, i + Len(needle) - 1) = needle

\* index of the first occurrence of needle in key (needle occurs in key)
FirstIndexOf(needle, key) ==
    CHOOSE i \in 1..(Len(key) - Len(needle) + 1) :
        /\ SubSeq(key, i, i + Len(needle) - 1) = needle
        /\ \A j \in 1..(i - 1) : SubSeq(key, j, j + Len(needle) - 1) # needle

\* Python `key.split(needle)[0]`
SplitHead(key, needle) ==
    IF Contains(needle, key)
    THEN SubSeq(key, 1, FirstIndexOf(needle, key) - 1)
    ELSE key

\* Python `k.split("lora_")[0] + "bias"`
BiasName(k) == SplitHead(k, "lora_") \o "bias"

(* ------------------------------ mappings ------------------------------ *)

EmptyDict == [k \in {} |-> k]

Restrict(m, keys) == [k \in (DOMAIN m) \cap keys |-> m[k]]

\* Python `m[k] = v`
Put(m, k, v) == [x \in (DOMAIN m) \cup {k} |-> IF x = k THEN v ELSE m[x]]

\* Python `for k, v in src.items(): m[k] = v`
PutAll(m, src) ==
    [x \in (DOMAIN m) \cup (DOMAIN src) |-> IF x \in DOMAIN src THEN src[x] ELSE m[x]]

KeySets(n) == { S \in SUBSET AllKeys : Cardinality(S) <= n }

\* model.state_dict(): a new mapping of the model's parameters
StateDictOf(m) == m.params

(* ------------------- get_peft_model_state_dict ------------------------ *)

\* A call works on two mapping objects: heap.sd is the object the name
\* state_dict refers to, heap.ret the object a dict display creates.  ref
\* names the object to_return refers to.

\* mutant: to_return is the state_dict object itself
NewDictAliased(h, content) ==
    [heap |-> [h EXCEPT !.sd = PutAll(@, content)], ref |-> "sd"]

\* `to_return = {...}`: a new mapping object holding content
NewDict(h, content) ==
    [heap |-> [h EXCEPT !.ret = content], ref |-> "ret"]

\* `to_return[k] = src[k]` for every k of src
Store(st, src) ==
    [st EXCEPT !.heap = [@ EXCEPT ![st.ref] = PutAll(@, src)]]

\* bias == "none": {k: state_dict[k] for k in state_dict if "lora_" in k}
KeepNone(sd) == Restrict(sd, {k \in DOMAIN sd : Contains("lora_", k)})

\* mutant: "bias" keys are not kept
KeepAllNoBias(sd) == Restrict(sd, {k \in DOMAIN sd : Contains("lora_", k)})

\* bias == "all": keys with "lora_" in k or "bias" in k
KeepAll(sd) ==
    Restrict(sd, {k \in DOMAIN sd : Contains("lora_", k) \/ Contains("bias", k)})

\* mutant: the sibling is derived from the part before the last "lora_"
KeepLoraOnlyLastSplit(sd) ==
    LET lora == {k \in DOMAIN sd : Contains("lora_", k)}
        lastIndex(k) == CHOOSE i \in 1..(Len(k) - 4) :
                            /\ SubSeq(k, i, i + 4) = "lora_"
                            /\ \A j \in (i + 1)..(Len(k) - 4) : SubSeq(k, j, j + 4) # "lora_"
        last(k) == SubSeq(k, 1, lastIndex(k) - 1) \o "bias"
    IN  Restrict(sd, lora \cup ({last(k) : k \in lora} \cap DOMAIN sd))

\* bias == "lora_only": every "lora_" key and, when state_dict has it, the
\* key bias_name = k.split("lora_")[0] + "bias"
KeepLoraOnly(sd) ==
    LET lora == {k \in DOMAIN sd : Contains("lora_", k)}
        bias_names == {BiasName(k) : k \in lora} \cap DOMAIN sd
    IN  Restrict(sd, lora \cup bias_names)

Raised(h) == [raised |-> TRUE, heap |-> h, ref |-> None]

Returned(st) == [raised |-> FALSE, heap |-> st.heap, ref |-> st.ref]

\* mutant: an unsupported bias yields an empty mapping instead of raising
LoraBranchNoRaise(bias, h) ==
    CASE bias = "none" -> Returned(NewDict(h, KeepNone(h.sd)))
      [] bias = "all" -> Returned(NewDict(h, KeepAll(h.sd)))
      [] bias = "lora_only" -> Returned(NewDict(h, KeepLoraOnly(h.sd)))
      [] OTHER -> Returned(NewDict(h, EmptyDict))

\* the branch on model.peft_config.bias
LoraBranch(bias, h) ==
    CASE bias = "none" -> Returned(NewDict(h, KeepNone(h.sd)))
      [] bias = "all" -> Returned(NewDict(h, KeepAll(h.sd)))
      [] bias = "lora_only" -> Returned(NewDict(h, KeepLoraOnly(h.sd)))
      [] OTHER -> Raised(h)

\* model.get_prompt_embedding_to_save(): the tensor the model reports, which
\* is the embedding weight itself or the output of the prompt encoder
GetPromptEmbeddingToSave(m) ==
    IF m.prompt_encoder = "embedding"
    THEN m.params[EmbeddingWeightKey]
    ELSE Tensor(m.name, "prompt_encoder(prompt_tokens)", ModelShape)

\* mutant: the embedding is stored under "weight"
PromptBranchWeightKey(m, h) ==
    Returned(Store(NewDict(h, EmptyDict),
                   [k \in {"weight"} |-> GetPromptEmbeddingToSave(m)]))

\* to_return = {}; to_return["prompt_embeddings"] = prompt_embeddings
PromptBranch(m, h) ==
    Returned(Store(NewDict(h, EmptyDict),
                   [k \in {PromptKey} |-> GetPromptEmbeddingToSave(m)]))

\* mutant: all(...) in place of any(...)
ModulesMatchAll(modules_to_save, key) ==
    \A module_name \in modules_to_save : Contains(module_name, key)

\* any(module_name in key for module_name in model.modules_to_save)
ModulesMatch(modules_to_save, key) ==
    \E module_name \in modules_to_save : Contains(module_name, key)

\* the entries of state_dict the loop over modules_to_save copies
ExtraSaved(modules_to_save, sd) ==
    IF IsNone(modules_to_save)
    THEN EmptyDict
    ELSE Restrict(sd, {k \in DOMAIN sd : ModulesMatch(ValueOf(modules_to_save), k)})

\* the whole function: [raised, heap, ref]
get_peft_model_state_dict(m, state_dict) ==
    LET h0 == [sd |-> IF IsNone(state_dict) THEN StateDictOf(m) ELSE ValueOf(state_dict),
               ret |-> EmptyDict]
        st == IF m.peft_type = LORA
              THEN LoraBranch(m.bias, h0)
              ELSE PromptBranch(m, h0)
    IN  IF st.raised
        THEN st
        ELSE Store(st, ExtraSaved(m.modules_to_save, st.heap.sd))

(* ------------------- set_peft_model_state_dict ------------------------ *)

Mismatched(params, mapping) ==
    {k \in (DOMAIN params) \cap (DOMAIN mapping) :
        ShapeOf(mapping[k]) # ShapeOf(params[k])}

\* mutant: strict=True, missing and unexpected keys are reported too
LoadStrictKeys(params, mapping) ==
    [params |-> [k \in DOMAIN params |->
                    IF k \in DOMAIN mapping /\ k \notin Mismatched(params, mapping)
                    THEN mapping[k] ELSE params[k]],
     raised |-> Mismatched(params, mapping) # {} \/ DOMAIN params # DOMAIN mapping]

\* torch's Module.load_state_dict(mapping, strict=False): every entry whose
\* key the module has and whose shape fits is copied in; missing and
\* unexpected keys are ignored; a shape mismatch is reported after the
\* other entries were copied.
LoadNonStrict(params, mapping) ==
    [params |-> [k \in DOMAIN params |->
                    IF k \in DOMAIN mapping /\ k \notin Mismatched(params, mapping)
                    THEN mapping[k] ELSE params[k]],
     raised |-> Mismatched(params, mapping) # {}]

\* embedding.load_state_dict({"weight": v}, strict=True)
LoadEmbeddingStrict(params, v) ==
    IF ShapeOf(v) = ShapeOf(params[EmbeddingWeightKey])
    THEN [params |-> [params EXCEPT ![EmbeddingWeightKey] = v], raised |-> FALSE]
    ELSE [params |-> params, raised |-> TRUE]

\* mutant: the strict load of "prompt_embeddings" comes first
set_peft_model_state_dict_StrictFirst(m, mapping) ==
    IF m.peft_type # LORA /\ PromptKey \notin DOMAIN mapping
    THEN [model |-> m, error |-> "KeyError", returned |-> None]
    ELSE LET first == LoadNonStrict(m.params, mapping)
             m1 == [m EXCEPT !.params = first.params]
         IN  IF first.raised
             THEN [model |-> m1, error |-> "RuntimeError", returned |-> None]
             ELSE IF m.peft_type = LORA
             THEN [model |-> m1, error |-> None, returned |-> m1.name]
             ELSE LET second == LoadEmbeddingStrict(m1.params, mapping[PromptKey])
                  IN  IF second.raised
                      THEN [model |-> m1, error |-> "RuntimeError", returned |-> None]
                      ELSE [model |-> [m1 EXCEPT !.params = second.params],
                            error |-> None, returned |-> m1.name]

\* the whole function: the model after the call, the error raised (None
\* when it returns) and the name of the instance returned
set_peft_model_state_dict(m, mapping) ==
    LET first == LoadNonStrict(m.params, mapping)
        m1 == [m EXCEPT !.params = first.params]
    IN  IF first.raised
        THEN [model |-> m1, error |-> "RuntimeError", returned |-> None]
        ELSE IF m.peft_type = LORA
        THEN [model |-> m1, error |-> None, returned |-> m1.name]
        ELSE IF PromptKey \notin DOMAIN mapping
        THEN [model |-> m1, error |-> "KeyError", returned |-> None]
        ELSE LET second == LoadEmbeddingStrict(m1.params, mapping[PromptKey])
                 m2 == [m1 EXCEPT !.params = second.params]
             IN  IF second.raised
                 THEN [model |-> m2, error |-> "RuntimeError", returned |-> None]
                 ELSE [model |-> m2, error |-> None, returned |-> m2.name]

(* ------------------------- models and inputs -------------------------- *)

ParamsOf(owner, keys) == [k \in keys |-> Tensor(owner, k, ModelShape)]

\* the names a parameter of a model can have: "prompt_embeddings" is the key
\* of the saved mapping, not the name of a parameter
ParamKeySets(n) == { S \in KeySets(n) : PromptKey \notin S }

\* LoRA models: any supported or unsupported bias, no prompt encoder
LoraModels(owner, biases, modules) ==
    { [name |-> owner, peft_type |-> LORA, bias |-> b, modules_to_save |-> ms,
       params |-> ParamsOf(owner, S), prompt_encoder |-> None] :
      b \in biases, ms \in modules,
      S \in {T \in ParamKeySets(MaxKeys) : EmbeddingWeightKey \notin T} }

\* prompt-based models: model.prompt_encoder.embedding.weight is a parameter;
\* the reported prompt embedding is that weight or the encoder's output
PromptModels(owner, modules) ==
    { [name |-> owner, peft_type |-> PROMPT_BASED, bias |-> None,
       modules_to_save |-> ms, params |-> ParamsOf(owner, S),
       prompt_encoder |-> pe] :
      ms \in modules,
      S \in {T \in ParamKeySets(MaxKeys) : EmbeddingWeightKey \in T},
      pe \in {"embedding", "reparameterized"} }

\* a model built anew with the descriptor and the parameter names of m
FreshLike(m, owner) ==
    [m EXCEPT !.name = owner, !.params = ParamsOf(owner, DOMAIN m.params)]

\* the mappings a caller passes as state_dict
ArgStateDicts == { ParamsOf("S", S) : S \in KeySets(MaxArgKeys) }

NoCall ==
    /\ heap = [sd |-> EmptyDict, ret |-> EmptyDict]
    /\ sd0 = EmptyDict
    /\ ret_ref = None
    /\ arg_given = FALSE
    /\ peft_model_state_dict = NoValue
    /\ returned = None
    /\ log = << >>
    /\ error = None
    /\ failed_step = None
    /\ hooks = {}
    /\ device_map = None
    /\ dispatched = FALSE

Init ==
    /\ model \in LoraModels("A", BiasValues, ModulesToSaveValues)
                   \cup PromptModels("A", ModulesToSaveValues)
    /\ target = FreshLike(model, "B")
    /\ fresh = target
    /\ pc = "start"
    /\ NoCall

\* result = get_peft_model_state_dict(model) or
\* result = get_peft_model_state_dict(model, state_dict)
Extract ==
    /\ pc = "start"
    /\ \E arg \in {NoValue} \cup {Some(sd) : sd \in ArgStateDicts} :
          LET r == get_peft_model_state_dict(model, arg)
          IN  /\ sd0' = IF IsNone(arg) THEN StateDictOf(model) ELSE ValueOf(arg)
              /\ heap' = r.heap
              /\ ret_ref' = r.ref
              /\ arg_given' = ~IsNone(arg)
              /\ pc' = IF r.raised THEN "extract_raised" ELSE "extracted"
              /\ error' = IF r.raised THEN "NotImplementedError" ELSE None
    /\ UNCHANGED <<model, target, fresh, peft_model_state_dict, returned, ld_vars>>

\* the caller adds an entry to the mapping extract returned
AddToResult ==
    /\ pc = "extracted"
    /\ heap' = [heap EXCEPT ![ret_ref] =
                   Put(@, "caller.added", Tensor("caller", "caller.added", ModelShape))]
    /\ pc' = "added"
    /\ UNCHANGED <<model, target, fresh, sd0, ret_ref, arg_given,
                   peft_model_state_dict, returned, error, ld_vars>>

\* set_peft_model_state_dict(target, get_peft_model_state_dict(model))
RoundTrip ==
    /\ pc = "extracted"
    /\ ~arg_given
    /\ LET r == set_peft_model_state_dict(target, heap[ret_ref])
       IN  /\ target' = r.model
           /\ error' = r.error
           /\ returned' = r.returned
           /\ pc' = IF r.error = None THEN "restored" ELSE "restore_raised"
    /\ peft_model_state_dict' = Some(heap[ret_ref])
    /\ UNCHANGED <<model, fresh, heap, sd0, ret_ref, arg_given, ld_vars>>

Next == Extract \/ AddToResult \/ RoundTrip

Spec == Init /\ [][Next]_vars

(* -------------------- restore of any mapping -------------------------- *)

\* the mappings a caller passes to restore: entries of either shape
RestoreMappings ==
    { [k \in DOMAIN shape |-> Tensor("S", k, shape[k])] :
      shape \in UNION { [S -> {ModelShape, OtherShape}] : S \in KeySets(MaxArgKeys) } }

InitRestore ==
    /\ target \in LoraModels("B", {"none"}, {NoValue})
                    \cup PromptModels("B", {NoValue})
    /\ model = target
    /\ fresh = target
    /\ pc = "start"
    /\ NoCall

\* set_peft_model_state_dict(target, mapping)
Restore ==
    /\ pc = "start"
    /\ \E mapping \in RestoreMappings :
          LET r == set_peft_model_state_dict(target, mapping)
          IN  /\ target' = r.model
              /\ error' = r.error
              /\ returned' = r.returned
              /\ pc' = IF r.error = None THEN "restored" ELSE "restore_raised"
              /\ peft_model_state_dict' = Some(mapping)
    /\ UNCHANGED <<model, fresh, heap, sd0, ret_ref, arg_given, ld_vars>>

SpecRestore == InitRestore /\ [][Restore]_vars

(* ------------------- peft_model_load_and_dispatch --------------------- *)

\* target before get_peft_model has constructed it
Unbuilt ==
    [name |-> None, peft_type |-> None, bias |-> None, modules_to_save |-> NoValue,
     params |-> EmptyDict, prompt_encoder |-> None]

\* the base model a constructed adapter model wraps
BaseOf(m) ==
    [m EXCEPT !.name = "base", !.peft_type = None, !.prompt_encoder = None,
              !.params = Restrict(@, {k \in DOMAIN @ :
                             ~Contains("lora_", k) /\ k # EmbeddingWeightKey})]

DispatchMappings ==
    {m \in RestoreMappings : DOMAIN m \subseteq {PromptKey, "base.lora_A"}}

\* mutant: the model is dispatched before the mapping is restored
NextCallDispatchFirst(call, peft_type) ==
    CASE call = "remove_hook_from_submodules" -> "get_peft_model"
      [] call = "get_peft_model" -> "print_trainable_parameters"
      [] call = "print_trainable_parameters" -> "infer_auto_device_map"
      [] call = "infer_auto_device_map" -> "dispatch_model"
      [] call = "dispatch_model" -> "set_peft_model_state_dict"
      [] call = "set_peft_model_state_dict" ->
            IF peft_type = LORA THEN "add_hook_to_module"
            ELSE "remove_hook_from_prompt_encoder"
      [] call = "remove_hook_from_prompt_encoder" -> "add_hook_to_module"
      [] call = "add_hook_to_module" -> "done"

\* the call that follows call in the body of the function
NextCall(call, peft_type) ==
    CASE call = "remove_hook_from_submodules" -> "get_peft_model"
      [] call = "get_peft_model" -> "print_trainable_parameters"
      [] call = "print_trainable_parameters" -> "set_peft_model_state_dict"
      [] call = "set_peft_model_state_dict" -> "infer_auto_device_map"
      [] call = "infer_auto_device_map" -> "dispatch_model"
      [] call = "dispatch_model" ->
            IF peft_type = LORA THEN "add_hook_to_module"
            ELSE "remove_hook_from_prompt_encoder"
      [] call = "remove_hook_from_prompt_encoder" -> "add_hook_to_module"
      [] call = "add_hook_to_module" -> "done"

\* the modules dispatch_model hangs device-alignment hooks on
DispatchHooks(m) ==
    IF m.peft_type = LORA THEN {"base.layer"} ELSE {"base.layer", "prompt_encoder"}

InitDispatch ==
    /\ fresh \in LoraModels("B", {"none"}, {NoValue})
                   \cup PromptModels("B", {NoValue})
    /\ model = BaseOf(fresh)
    /\ target = Unbuilt
    /\ pc = "remove_hook_from_submodules"
    /\ heap = [sd |-> EmptyDict, ret |-> EmptyDict]
    /\ sd0 = EmptyDict
    /\ ret_ref = None
    /\ arg_given = FALSE
    /\ peft_model_state_dict \in {Some(m) : m \in DispatchMappings}
    /\ returned = None
    /\ log = << >>
    /\ error = None
    /\ failed_step = None
    /\ hooks \in SUBSET {"base", "base.layer"}
    /\ device_map = None
    /\ dispatched = FALSE

\* the call at pc returned: it is logged and the next call is up
Completed(peft_type) ==
    /\ log' = Append(log, pc)
    /\ pc' = NextCall(pc, peft_type)
    /\ error' = None
    /\ failed_step' = None

ext_vars == <<model, fresh, heap, sd0, ret_ref, arg_given, peft_model_state_dict>>

\* remove_hook_from_submodules(model)
LdRemoveHooks ==
    /\ pc = "remove_hook_from_submodules"
    /\ hooks' = {}
    /\ Completed(fresh.peft_type)
    /\ UNCHANGED <<ext_vars, target, returned, device_map, dispatched>>

\* model = get_peft_model(model, peft_config)
LdGetPeftModel ==
    /\ pc = "get_peft_model"
    /\ target' = fresh
    /\ Completed(fresh.peft_type)
    /\ UNCHANGED <<ext_vars, returned, hooks, device_map, dispatched>>

\* model.print_trainable_parameters()
LdPrintTrainableParameters ==
    /\ pc = "print_trainable_parameters"
    /\ Completed(target.peft_type)
    /\ UNCHANGED <<ext_vars, target, returned, hooks, device_map, dispatched>>

\* set_peft_model_state_dict(model, peft_model_state_dict)
LdRestore ==
    /\ pc = "set_peft_model_state_dict"
    /\ LET r == set_peft_model_state_dict(target, ValueOf(peft_model_state_dict))
       IN  /\ target' = r.model
           /\ returned' = r.returned
           /\ IF r.error = None
              THEN Completed(target.peft_type)
              ELSE /\ pc' = "raised"
                   /\ error' = r.error
                   /\ failed_step' = pc
                   /\ log' = log
    /\ UNCHANGED <<ext_vars, hooks, device_map, dispatched>>

\* device_map = infer_auto_device_map(model, max_memory=..., ...)
LdInferDeviceMap ==
    /\ pc = "infer_auto_device_map"
    /\ device_map' = "auto"
    /\ Completed(target.peft_type)
    /\ UNCHANGED <<ext_vars, target, returned, hooks, dispatched>>

\* model = dispatch_model(model, device_map=device_map)
LdDispatchModel ==
    /\ pc = "dispatch_model"
    /\ dispatched' = TRUE
    /\ hooks' = hooks \cup DispatchHooks(target)
    /\ Completed(target.peft_type)
    /\ UNCHANGED <<ext_vars, target, returned, device_map>>

\* remove_hook_from_submodules(model.prompt_encoder)
LdRemovePromptEncoderHooks ==
    /\ pc = "remove_hook_from_prompt_encoder"
    /\ hooks' = hooks \ {"prompt_encoder"}
    /\ Completed(target.peft_type)
    /\ UNCHANGED <<ext_vars, target, returned, device_map, dispatched>>

\* add_hook_to_module(<the base model>, hook)
LdAddHook ==
    /\ pc = "add_hook_to_module"
    /\ hooks' = hooks \cup {"base"}
    /\ Completed(target.peft_type)
    /\ UNCHANGED <<ext_vars, target, returned, device_map, dispatched>>

\* a call to a collaborator raises: the exception leaves the function
LdCollaboratorRaises ==
    /\ pc \in {"remove_hook_from_submodules", "get_peft_model",
               "print_trainable_parameters", "infer_auto_device_map",
               "dispatch_model", "remove_hook_from_prompt_encoder",
               "add_hook_to_module"}
    /\ pc' = "raised"
    /\ error' = "CollaboratorError"
    /\ failed_step' = pc
    /\ UNCHANGED <<ext_vars, target, returned, log, hooks, device_map, dispatched>>

NextDispatch ==
    \/ LdRemoveHooks
    \/ LdGetPeftModel
    \/ LdPrintTrainableParameters
    \/ LdRestore
    \/ LdInferDeviceMap
    \/ LdDispatchModel
    \/ LdRemovePromptEncoderHooks
    \/ LdAddHook
    \/ LdCollaboratorRaises

SpecDispatch == InitDispatch /\ [][NextDispatch]_vars

(* ======================= properties of extract ======================== *)

\* the mapping extract returned
result == heap[ret_ref]

HasLora(k) == Contains("lora_", k)

MatchesExtra(k) ==
    /\ ~IsNone(model.modules_to_save)
    /\ \E s \in ValueOf(model.modules_to_save) : Contains(s, k)

\* p is the part of k before the first occurrence of "lora_"
IsPrefixBeforeFirstLora(p, k) ==
    \E i \in 1..(Len(k) - 4) :
        /\ SubSeq(k, i, i + 4) = "lora_"
        /\ \A j \in 1..(i - 1) : SubSeq(k, j, j + 4) # "lora_"
        /\ p = SubSeq(k, 1, i - 1)

\* k is prefix(k2) + "bias" for a "lora_" key k2 of the input
IsSiblingBias(k) ==
    \E k2 \in DOMAIN sd0, i \in 0..Len(k) :
        /\ Len(k) = i + 4
        /\ SubSeq(k, i + 1, i + 4) = "bias"
        /\ IsPrefixBeforeFirstLora(SubSeq(k, 1, i), k2)

BiasPredicate(k) ==
    CASE model.bias = "none" -> HasLora(k)
      [] model.bias = "all" -> HasLora(k) \/ Contains("bias", k)
      [] OTHER -> FALSE

\* C1 as stated: for a LoRA model with bias none / all the result's keys are
\* exactly the input keys satisfying the bias mode's predicate, each with the
\* input's value.
C1_ExactlyPredicateKeys ==
    (pc = "extracted" /\ model.peft_type = LORA /\ model.bias \in {"none", "all"})
    => /\ DOMAIN result = {k \in DOMAIN sd0 : BiasPredicate(k)}
       /\ \A k \in DOMAIN result : result[k] = sd0[k]

\* C1 amended: for a LoRA model with bias none / all the result's keys are
\* exactly the input keys that satisfy the bias mode's predicate or contain
\* one of the declared ExtraSavedModules substrings; each kept key maps to
\* the input's value.
C1_PredicateOrExtraKeys ==
    (pc = "extracted" /\ model.peft_type = LORA /\ model.bias \in {"none", "all"})
    => /\ DOMAIN result = {k \in DOMAIN sd0 : BiasPredicate(k) \/ MatchesExtra(k)}
       /\ \A k \in DOMAIN result : result[k] = sd0[k]

C1_Witness ==
    /\ pc = "extracted" /\ model.peft_type = LORA /\ model.bias = "all"
    /\ ~IsNone(model.modules_to_save)
    /\ {"base.lora_A", "base.bias", "other.weight"} \subseteq DOMAIN sd0
    /\ DOMAIN result = {"base.lora_A", "base.bias"}

\* C2: for a LoRA model with bias lora_only every input key containing
\* "lora_" is in the result, and for each such key k the key
\* prefix(k) + "bias" is in the result whenever it is an input key, prefix(k)
\* being the part of k before the first "lora_".
C2_LoraOnlyKeepsSiblingBias ==
    (pc = "extracted" /\ model.peft_type = LORA /\ model.bias = "lora_only")
    => \A k \in DOMAIN sd0 :
          HasLora(k) =>
              /\ k \in DOMAIN result
              /\ \A b \in DOMAIN sd0 :
                    (\E p \in {SubSeq(b, 1, Len(b) - 4)} :
                        /\ Len(b) >= 4
                        /\ b = p \o "bias"
                        /\ IsPrefixBeforeFirstLora(p, k))
                    => b \in DOMAIN result

C2_Witness ==
    /\ pc = "extracted" /\ model.peft_type = LORA /\ model.bias = "lora_only"
    /\ IsNone(model.modules_to_save)
    /\ {"m.lora_q.lora_A", "m.bias"} \subseteq DOMAIN sd0
    /\ "m.bias" \in DOMAIN result

\* the value the model's getPromptEmbeddingToSave() returns
ReportedEmbedding ==
    IF model.prompt_encoder = "embedding"
    THEN model.params[EmbeddingWeightKey]
    ELSE <<"A", "prompt_encoder(prompt_tokens)", ModelShape>>

\* C3 as stated: for a prompt-based model the result holds "prompt_embeddings"
\* mapped to the value getPromptEmbeddingToSave() returned, for every input
\* mapping and every ExtraSavedModules setting.
C3_PromptKeyHoldsReported ==
    (pc = "extracted" /\ model.peft_type # LORA)
    => /\ PromptKey \in DOMAIN result
       /\ result[PromptKey] = ReportedEmbedding

\* C3 amended: for a prompt-based model the result holds "prompt_embeddings";
\* it is mapped to the value getPromptEmbeddingToSave() returned unless the
\* input mapping has a key "prompt_embeddings" that contains a declared
\* ExtraSavedModules substring, and then to the input's value; every other key
\* of the result is an input key containing a declared substring.
C3_PromptKeyUnlessOverwritten ==
    (pc = "extracted" /\ model.peft_type # LORA)
    => /\ PromptKey \in DOMAIN result
       /\ IF PromptKey \in DOMAIN sd0 /\ MatchesExtra(PromptKey)
          THEN result[PromptKey] = sd0[PromptKey]
          ELSE result[PromptKey] = ReportedEmbedding
       /\ \A k \in DOMAIN result \ {PromptKey} :
              k \in DOMAIN sd0 /\ MatchesExtra(k)

C3_Witness ==
    /\ pc = "extracted" /\ model.peft_type # LORA
    /\ "base.lora_A" \in DOMAIN sd0
    /\ result = [k \in {PromptKey} |-> ReportedEmbedding]

\* k passes the filter of the model's own method
MethodKeeps(k) ==
    IF model.peft_type = LORA
    THEN CASE model.bias = "none" -> HasLora(k)
           [] model.bias = "all" -> HasLora(k) \/ Contains("bias", k)
           [] OTHER -> HasLora(k) \/ IsSiblingBias(k)
    ELSE k = PromptKey

\* C4: whenever extract returns and ExtraSavedModules is non-null, every input
\* key containing a declared substring is in the result with the input's
\* value, whatever the method and the bias mode; when ExtraSavedModules is
\* null the result holds only keys the method's own filter keeps.
C4_ExtraSavedModulesUnion ==
    (pc = "extracted")
    => /\ \A k \in DOMAIN sd0 :
              MatchesExtra(k) => (k \in DOMAIN result /\ result[k] = sd0[k])
       /\ IsNone(model.modules_to_save) =>
              \A k \in DOMAIN result : MethodKeeps(k)

C4_Witness ==
    /\ pc = "extracted"
    /\ model.modules_to_save = Some({"classifier", "bias"})
    /\ {"model.classifier.weight", "base.bias"} \subseteq DOMAIN sd0
    /\ ~MethodKeeps("model.classifier.weight") /\ ~MethodKeeps("base.bias")
    /\ {"model.classifier.weight", "base.bias"} \subseteq DOMAIN result

\* C6: extract on a LoRA model whose bias is none of none / all / lora_only
\* raises NotImplementedError and returns no mapping, not even the
\* ExtraSavedModules entries, for every input and ExtraSavedModules setting.
C6_UnsupportedBiasRaises ==
    (model.peft_type = LORA /\ model.bias \notin {"none", "all", "lora_only"})
    => /\ pc \in {"start", "extract_raised"}
       /\ pc = "extract_raised" =>
              /\ error = "NotImplementedError"
              /\ ret_ref = None
              /\ heap.ret = EmptyDict

C6_Witness ==
    /\ pc = "extract_raised"
    /\ model.bias = "bogus"
    /\ \E k \in DOMAIN sd0 : MatchesExtra(k)
    /\ ret_ref = None

\* C8: extract leaves its inputs unchanged: after any call, successful or
\* failing, fullMapping has the keys and values it had, the model's
\* parameters are unchanged, and the returned mapping is another object than
\* fullMapping, so that an entry the caller adds to it does not show in
\* fullMapping.
C8_ExtractLeavesInputs ==
    (pc \in {"extracted", "extract_raised", "added"})
    => /\ heap.sd = sd0
       /\ ~arg_given => StateDictOf(model) = sd0
       /\ model.params = ParamsOf("A", DOMAIN model.params)
       /\ ret_ref # "sd"
       /\ "caller.added" \notin DOMAIN heap.sd

C8_Witness ==
    /\ pc = "added"
    /\ model.peft_type # LORA
    /\ "caller.added" \in DOMAIN result
    /\ PromptKey \in DOMAIN result
    /\ heap.sd = sd0

(* ========================= round trip (C5) ============================ *)

\* the key of target's parameter that is the prompt-embedding weight
IsEmbeddingWeight(k) == model.peft_type # LORA /\ k = EmbeddingWeightKey

filteredMapping == ValueOf(peft_model_state_dict)

RestoreCalled == pc \in {"restored", "restore_raised"}

\* "prompt_embeddings" is absent from the mapping or does not fit the weight
PromptEntryUnusable ==
    \/ PromptKey \notin DOMAIN filteredMapping
    \/ ShapeOf(filteredMapping[PromptKey]) # ShapeOf(fresh.params[EmbeddingWeightKey])

\* an entry whose key the model has does not fit the model's parameter
SomeEntryMisshapen ==
    \E k \in (DOMAIN filteredMapping) \cap (DOMAIN fresh.params) :
        ShapeOf(filteredMapping[k]) # ShapeOf(fresh.params[k])

\* C7 as stated: restore fails exactly when the method is not LoRA and
\* "prompt_embeddings" is absent from the mapping or shape-incompatible; on a
\* LoRA model it succeeds for every mapping; when it succeeds it returns the
\* instance it was given.
C7_FailsExactlyOnPromptEntry ==
    RestoreCalled =>
        /\ (pc = "restore_raised") <=> (fresh.peft_type # LORA /\ PromptEntryUnusable)
        /\ pc = "restored" => returned = fresh.name

\* C7 amended: restore fails exactly when an entry of the mapping whose key
\* the model has is shape-incompatible with that parameter (any method), or
\* the method is not LoRA and "prompt_embeddings" is absent or
\* shape-incompatible with the prompt-embedding weight; keys the model does
\* not have and keys missing from the mapping never make it fail; when it
\* succeeds it returns the instance it was given.
C7_FailsExactlyOnShapeOrPromptEntry ==
    RestoreCalled =>
        /\ (pc = "restore_raised") <=>
               \/ SomeEntryMisshapen
               \/ (fresh.peft_type # LORA /\ PromptEntryUnusable)
        /\ pc = "restored" => returned = fresh.name

C7_Witness ==
    /\ pc = "restored"
    /\ fresh.peft_type = LORA
    /\ (DOMAIN filteredMapping) \ (DOMAIN fresh.params) # {}
    /\ (DOMAIN fresh.params) \ (DOMAIN filteredMapping) # {}
    /\ (DOMAIN fresh.params) \cap (DOMAIN filteredMapping) # {}
    /\ returned = "B"

\* restore failed because "prompt_embeddings" is absent from the mapping
FailedOnAbsentPromptKey == pc = "restore_raised" /\ error = "KeyError"

\* C10 as stated: when restore fails because "prompt_embeddings" is absent,
\* every parameter whose key occurs in the mapping already holds the new
\* value and the prompt-embedding weight is unchanged.
C10_LoadedAndWeightUnchanged ==
    FailedOnAbsentPromptKey =>
        /\ \A k \in (DOMAIN target.params) \cap (DOMAIN filteredMapping) :
               target.params[k] = filteredMapping[k]
        /\ target.params[EmbeddingWeightKey] = fresh.params[EmbeddingWeightKey]

\* C10 amended: when restore fails because "prompt_embeddings" is absent,
\* every parameter whose key occurs in the mapping already holds the new
\* value, the other parameters are unchanged, and the prompt-embedding weight
\* is unchanged unless the mapping holds the weight's own key.
C10_LoadedAndWeightUnchangedUnlessKeyed ==
    FailedOnAbsentPromptKey =>
        /\ \A k \in (DOMAIN target.params) \cap (DOMAIN filteredMapping) :
               target.params[k] = filteredMapping[k]
        /\ \A k \in (DOMAIN target.params) \ (DOMAIN filteredMapping) :
               target.params[k] = fresh.params[k]
        /\ EmbeddingWeightKey \notin DOMAIN filteredMapping =>
               target.params[EmbeddingWeightKey] = fresh.params[EmbeddingWeightKey]

C10_Witness ==
    /\ FailedOnAbsentPromptKey
    /\ "other.weight" \in DOMAIN filteredMapping
    /\ "other.weight" \in DOMAIN target.params
    /\ target.params["other.weight"] = filteredMapping["other.weight"]
    /\ target.params["other.weight"] # fresh.params["other.weight"]
    /\ target.params[EmbeddingWeightKey] = fresh.params[EmbeddingWeightKey]

(* =================== properties of loadAndDispatch ==================== *)

\* the six steps in their fixed order
FixedOrder ==
    << "remove_hook_from_submodules", "get_peft_model", "set_peft_model_state_dict",
       "infer_auto_device_map", "dispatch_model", "add_hook_to_module" >>

IsFixedStep(s) == \E i \in 1..Len(FixedOrder) : FixedOrder[i] = s

\* the steps performed, among the six
Performed == SelectSeq(log, IsFixedStep)

IsPrefix(a, b) == Len(a) <= Len(b) /\ SubSeq(b, 1, Len(a)) = a

InLog(s) == \E i \in 1..Len(log) : log[i] = s

\* C9: the steps loadAndDispatch performed are a prefix of the fixed order
\* strip hooks, construct, restore, plan devices, dispatch, attach hook; the
\* run ends with all six iff no call failed; when a call fails the caller
\* receives that failure and nothing runs after it; no dispatch without a
\* completed restore and no hook attached before dispatch.
C9_StepsArePrefixOfFixedOrder ==
    /\ IsPrefix(Performed, FixedOrder)
    /\ pc = "done" => (Performed = FixedOrder /\ error = None)
    /\ pc = "raised" =>
          /\ Performed # FixedOrder
          /\ error # None
          /\ ~InLog(failed_step)
          /\ (failed_step = "set_peft_model_state_dict") <=>
                 (error \in {"KeyError", "RuntimeError"})
          /\ ~ENABLED NextDispatch
    /\ dispatched => InLog("set_peft_model_state_dict")
    /\ InLog("add_hook_to_module") => dispatched
    /\ (device_map # None) => InLog("set_peft_model_state_dict")

C9_Witness ==
    /\ pc = "raised"
    /\ failed_step = "set_peft_model_state_dict"
    /\ error = "KeyError"
    /\ Performed = <<"remove_hook_from_submodules", "get_peft_model">>
    /\ ~dispatched /\ device_map = None

====
